---- MODULE Spec2Model ----
(***************************************************************************)
(* Model of cythonbuilder's command line entry point, cli.main.           *)
(* main parses sys.argv[1:], strips the global preference flags, reads    *)
(* the command, and drives the pipeline discovery -> build -> clean       *)
(* through the cythonbuilder package, asking the user for confirmation.   *)
(* The collaborators (cython_find_pyx_files, cython_build, cython_clean,  *)
(* init_cython, package_is_installed, input) are the environment: each    *)
(* call returns or raises, each prompt is answered, nondeterministically. *)
(* History variables (calls, finds, builds, cleans, prompts, errors,      *)
(* helpShown) record what main did to its collaborators.                  *)
(***************************************************************************)
EXTENDS Integers, Sequences, FiniteSets, TLC

\* Longest command line explored (number of arguments after the program name).
MaxArgs == 3

\* Words that may appear on the command line.
Tokens ==
    {"-v", "--verbose", "-y", "--yes", "--accept",
     "init", "list", "build", "clean", "help",
     "--include-numpy", "--no-annotations", "--no-annotation", "--no-cleanup",
     "a", "b"}

\* Lists of full paths that discovery may return.
PyxLists == {<<>>, <<"/p/one.pyx">>, <<"/p/one.pyx", "/p/two.pyx">>}

\* What the user may type at a prompt.
Answers == {"y", "Y", "n"}

\* Value of cmd1 before a command has been read.
NoCmd == "<none>"

VARIABLES
    argv,                       \* sys.argv[1:] as given by the user
    args,                       \* the local list args of main
    pc,                         \* position of main
    VERBOSE, ACCEPT,            \* preferences
    logLevel,                   \* level of the logger
    cmd1,                       \* the command
    include_numpy, dont_generate_annotations, dont_cleanup,
    target_filenames,           \* the name filter (None or a list)
    numpy_is_installed,
    target_pyx_files_fullpaths, \* the list discovery returned
    calls,                      \* calls into cythonbuilder, in order, with outcome
    finds, builds, cleans,      \* the arguments of those calls
    prompts,                    \* prompts shown through input(), with the answer
    errors,                     \* number of logger.error reports
    helpShown                   \* number of display_help calls

vars == <<argv, args, pc, VERBOSE, ACCEPT, logLevel, cmd1, include_numpy,
          dont_generate_annotations, dont_cleanup, target_filenames,
          numpy_is_installed, target_pyx_files_fullpaths, calls, finds,
          builds, cleans, prompts, errors, helpShown>>

----------------------------------------------------------------------------
\* Helpers on lists

Range(s) == {s[i] : i \in DOMAIN s}

\* list.remove(x): drops the first occurrence of x.
ListRemove(s, x) ==
    IF x \notin Range(s) THEN s
    ELSE LET i == CHOOSE k \in DOMAIN s :
                    s[k] = x /\ \A j \in 1..(k - 1) : s[j] # x
         IN  SubSeq(s, 1, i - 1) \o SubSeq(s, i + 1, Len(s))

\* Python's None and a present list, kept apart from each other.
None == [isNone |-> TRUE, list |-> <<>>]
Some(l) == [isNone |-> FALSE, list |-> l]

\* str.lower() on the answers a user may type.
Lower(s) == IF s = "Y" THEN "y" ELSE IF s = "N" THEN "n" ELSE s

----------------------------------------------------------------------------
\* Pieces of main

\* line 42
Verbose(a) == "-v" \in Range(a) \/ "--verbose" \in Range(a)

\* Variant of Accept that tests the flag name the removal loop uses.
Accept_m(a) == "-y" \in Range(a) \/ "--accept" \in Range(a)

\* line 43
Accept(a) == "-y" \in Range(a) \/ "--yes" \in Range(a)

\* line 45: the flags the loop tries to remove
PreferenceFlags ==
    <<"-f", "--force", "-v", "--verbose", "-y", "--accept", "-o", "--overwrite">>

\* lines 45-46: for flag in [...]: args.remove(flag) if (flag in args) else None
RECURSIVE RemoveFlags(_, _)
RemoveFlags(a, flags) ==
    IF flags = <<>> THEN a
    ELSE RemoveFlags(ListRemove(a, Head(flags)), Tail(flags))

\* helpers.CliTools.pop_arg_or_exit on a non-empty list: the popped value
\* and what is left of the list.
PopArg(arglist) == Head(arglist)
PopRest(arglist) == Tail(arglist)

\* lines 72, 86, 127: args if (len(args) > 0) else None
TargetFilenames(a) == IF Len(a) > 0 THEN Some(a) ELSE None

\* line 85
BuildOptions == {"--no-annotations", "--include-numpy", "--no-cleanup"}

\* line 126
CleanOptions == {"--no-cleanup"}

\* lines 85, 126: [a for a in args if (a not in options)]
Strip(a, options) == SelectSeq(a, LAMBDA x : x \notin options)

\* Variant of Dispatch that sends list down the clean branch.
Dispatch_m(cmd) ==
    IF cmd = "init" THEN "init"
    ELSE IF cmd = "list" THEN "clean"
    ELSE IF cmd = "build" THEN "build"
    ELSE IF cmd = "clean" THEN "clean"
    ELSE IF cmd = "help" THEN "help"
    ELSE "unknown"

\* lines 65, 70, 80, 123, 146, 148: the if/elif chain on cmd1
Dispatch(cmd) ==
    IF cmd = "init" THEN "init"
    ELSE IF cmd = "list" THEN "list"
    ELSE IF cmd = "build" THEN "build"
    ELSE IF cmd = "clean" THEN "clean"
    ELSE IF cmd = "help" THEN "help"
    ELSE "unknown"

\* line 82
IncludeNumpyOpt(a) == "--include-numpy" \in Range(a)

\* line 83
NoAnnotationsOpt(a) == "--no-annotations" \in Range(a)

\* lines 84, 125
NoCleanupOpt(a) == "--no-cleanup" \in Range(a)

\* line 90
NeedsInstallPrompt(inc, inst) == inc /\ ~inst

\* Variant of NeedsIncludePrompt that forgets to test numpy_is_installed.
NeedsIncludePrompt_m(inc, inst) == ~inc

\* line 97
NeedsIncludePrompt(inc, inst) == ~inc /\ inst

\* lines 92, 98, 107, 136: input(...).lower() == 'y'
Yes(answer) == Lower(answer) = "y"

\* line 113
CreateAnnotations(dont) == ~dont

\* Variant of CleanCall that passes the retention flag inverted.
CleanCall_m(fullpaths, keep) == [target_files |-> fullpaths, keep_c_files |-> ~keep]

\* lines 117, 140: the arguments of cython_clean
CleanCall(fullpaths, keep) == [target_files |-> fullpaths, keep_c_files |-> keep]

\* Variant of BuildCall that drops the first discovered file.
BuildCall_m(fullpaths, dont, inc) ==
    [target_files |-> IF fullpaths = <<>> THEN <<>> ELSE Tail(fullpaths),
     create_annotations |-> CreateAnnotations(dont),
     include_numpy |-> inc]

\* lines 111-115: the arguments of cython_build
BuildCall(fullpaths, dont, inc) ==
    [target_files |-> fullpaths,
     create_annotations |-> CreateAnnotations(dont),
     include_numpy |-> inc]

\* lines 105, 134: where main goes after discovery returned
AfterDiscovery(accept, cmd) ==
    IF ~accept THEN "confirm" ELSE IF cmd = "build" THEN "build" ELSE "clean"

\* lines 107-110, 136-139: where main goes after the confirmation prompt
AfterConfirm(answer, cmd) ==
    IF ~Yes(answer) THEN "done" ELSE IF cmd = "build" THEN "build" ELSE "clean"

\* Variant of AfterBuild that goes on to clean whatever the outcome.
AfterBuild_m(outcome) == "clean"

\* lines 111-122: where main goes after cython_build
AfterBuild(outcome) == IF outcome = "returned" THEN "clean" ELSE "done"

\* Variant of Reported that swallows the exception silently.
Reported_m(outcome) == 0

\* lines 120-122, 143-145: except Exception -> logger.error
Reported(outcome) == IF outcome = "raised" THEN 1 ELSE 0

Outcomes == {"returned", "raised"}

----------------------------------------------------------------------------
Init ==
    /\ argv \in UNION {[1..n -> Tokens] : n \in 0..MaxArgs}
    /\ args = argv
    /\ pc = "start"
    /\ VERBOSE = FALSE
    /\ ACCEPT = FALSE
    /\ logLevel = "INFO"
    /\ cmd1 = NoCmd
    /\ include_numpy = FALSE
    /\ dont_generate_annotations = FALSE
    /\ dont_cleanup = FALSE
    /\ target_filenames = None
    /\ numpy_is_installed = FALSE
    /\ target_pyx_files_fullpaths = <<>>
    /\ calls = <<>>
    /\ finds = <<>>
    /\ builds = <<>>
    /\ cleans = <<>>
    /\ prompts = <<>>
    /\ errors = 0
    /\ helpShown = 0

\* lines 38-59: preferences, logging level, help on an empty argument list
ParsePreferences ==
    /\ pc = "start"
    /\ VERBOSE' = Verbose(args)
    /\ ACCEPT' = Accept(args)
    /\ args' = RemoveFlags(args, PreferenceFlags)
    /\ logLevel' = IF VERBOSE' THEN "DEBUG" ELSE logLevel
    /\ IF Len(args') = 0
       THEN helpShown' = helpShown + 1 /\ pc' = "done"
       ELSE helpShown' = helpShown /\ pc' = "command"
    /\ UNCHANGED <<argv, cmd1, include_numpy, dont_generate_annotations,
                   dont_cleanup, target_filenames, numpy_is_installed,
                   target_pyx_files_fullpaths, calls, finds, builds, cleans,
                   prompts, errors>>

\* line 60: cmd1 = pop_arg_or_exit(arglist=args, ...)
ReadCommand ==
    /\ pc = "command"
    /\ cmd1' = PopArg(args)
    /\ args' = PopRest(args)
    /\ pc' = "dispatch"
    /\ UNCHANGED <<argv, VERBOSE, ACCEPT, logLevel, include_numpy,
                   dont_generate_annotations, dont_cleanup, target_filenames,
                   numpy_is_installed, target_pyx_files_fullpaths, calls,
                   finds, builds, cleans, prompts, errors, helpShown>>

\* lines 65-69: init
CmdInit ==
    /\ pc = "dispatch"
    /\ Dispatch(cmd1) = "init"
    /\ \E outcome \in Outcomes :
         calls' = Append(calls, [fn |-> "init_cython", outcome |-> outcome])
    /\ pc' = "done"
    /\ UNCHANGED <<argv, args, VERBOSE, ACCEPT, logLevel, cmd1, include_numpy,
                   dont_generate_annotations, dont_cleanup, target_filenames,
                   numpy_is_installed, target_pyx_files_fullpaths, finds,
                   builds, cleans, prompts, errors, helpShown>>

\* lines 70-79: list
CmdList ==
    /\ pc = "dispatch"
    /\ Dispatch(cmd1) = "list"
    /\ target_filenames' = TargetFilenames(args)
    /\ \E outcome \in Outcomes, found \in PyxLists :
         /\ calls' = Append(calls, [fn |-> "cython_find_pyx_files",
                                    outcome |-> outcome])
         /\ finds' = Append(finds, [target_files |-> target_filenames',
                                    result |-> IF outcome = "returned"
                                               THEN found ELSE <<>>])
         /\ target_pyx_files_fullpaths' =
                IF outcome = "returned" THEN found
                ELSE target_pyx_files_fullpaths
    /\ pc' = "done"
    /\ UNCHANGED <<argv, args, VERBOSE, ACCEPT, logLevel, cmd1, include_numpy,
                   dont_generate_annotations, dont_cleanup,
                   numpy_is_installed, builds, cleans, prompts, errors,
                   helpShown>>

\* lines 81-89: build reads its options and asks whether numpy is installed
CmdBuildArgs ==
    /\ pc = "dispatch"
    /\ Dispatch(cmd1) = "build"
    /\ include_numpy' = IncludeNumpyOpt(args)
    /\ dont_generate_annotations' = NoAnnotationsOpt(args)
    /\ dont_cleanup' = NoCleanupOpt(args)
    /\ args' = Strip(args, BuildOptions)
    /\ target_filenames' = TargetFilenames(args')
    /\ numpy_is_installed' \in BOOLEAN
    /\ pc' = "numpy"
    /\ UNCHANGED <<argv, VERBOSE, ACCEPT, logLevel, cmd1,
                   target_pyx_files_fullpaths, calls, finds, builds, cleans,
                   prompts, errors, helpShown>>

\* lines 90-96: numpy requested but not installed
NumpyInstallCheck ==
    /\ pc = "numpy"
    /\ IF NeedsInstallPrompt(include_numpy, numpy_is_installed)
       THEN \E answer \in Answers :
              /\ prompts' = Append(prompts, [kind |-> "install_numpy",
                                             answer |-> answer])
              /\ IF Yes(answer)
                 THEN pc' = "done" /\ include_numpy' = include_numpy
                 ELSE pc' = "numpy_include" /\ include_numpy' = FALSE
       ELSE /\ pc' = "numpy_include"
            /\ UNCHANGED <<prompts, include_numpy>>
    /\ UNCHANGED <<argv, args, VERBOSE, ACCEPT, logLevel, cmd1,
                   dont_generate_annotations, dont_cleanup, target_filenames,
                   numpy_is_installed, target_pyx_files_fullpaths, calls,
                   finds, builds, cleans, errors, helpShown>>

\* lines 97-99: numpy installed but not requested
NumpyIncludeCheck ==
    /\ pc = "numpy_include"
    /\ IF NeedsIncludePrompt(include_numpy, numpy_is_installed)
       THEN \E answer \in Answers :
              /\ prompts' = Append(prompts, [kind |-> "include_numpy",
                                             answer |-> answer])
              /\ include_numpy' = IF Yes(answer) THEN TRUE ELSE include_numpy
       ELSE UNCHANGED <<prompts, include_numpy>>
    /\ pc' = "discover"
    /\ UNCHANGED <<argv, args, VERBOSE, ACCEPT, logLevel, cmd1,
                   dont_generate_annotations, dont_cleanup, target_filenames,
                   numpy_is_installed, target_pyx_files_fullpaths, calls,
                   finds, builds, cleans, errors, helpShown>>

\* lines 124-127: clean reads its option
CmdCleanArgs ==
    /\ pc = "dispatch"
    /\ Dispatch(cmd1) = "clean"
    /\ dont_cleanup' = NoCleanupOpt(args)
    /\ args' = Strip(args, CleanOptions)
    /\ target_filenames' = TargetFilenames(args')
    /\ pc' = "discover"
    /\ UNCHANGED <<argv, VERBOSE, ACCEPT, logLevel, cmd1, include_numpy,
                   dont_generate_annotations, numpy_is_installed,
                   target_pyx_files_fullpaths, calls, finds, builds, cleans,
                   prompts, errors, helpShown>>

\* lines 102-104 and 131-133 (with the handlers at 120-122, 143-145):
\* discovery inside the try block of build and of clean
Discover ==
    /\ pc = "discover"
    /\ \E outcome \in Outcomes, found \in PyxLists :
         /\ calls' = Append(calls, [fn |-> "cython_find_pyx_files",
                                    outcome |-> outcome])
         /\ finds' = Append(finds, [target_files |-> target_filenames,
                                    result |-> IF outcome = "returned"
                                               THEN found ELSE <<>>])
         /\ target_pyx_files_fullpaths' =
                IF outcome = "returned" THEN found
                ELSE target_pyx_files_fullpaths
         /\ errors' = errors + Reported(outcome)
         /\ pc' = IF outcome = "returned"
                  THEN AfterDiscovery(ACCEPT, cmd1) ELSE "done"
    /\ UNCHANGED <<argv, args, VERBOSE, ACCEPT, logLevel, cmd1, include_numpy,
                   dont_generate_annotations, dont_cleanup, target_filenames,
                   numpy_is_installed, builds, cleans, prompts, helpShown>>

\* lines 105-109 and 134-138: the confirmation prompt
Confirm ==
    /\ pc = "confirm"
    /\ \E answer \in Answers :
         /\ prompts' = Append(prompts, [kind |-> "confirm", answer |-> answer])
         /\ pc' = AfterConfirm(answer, cmd1)
    /\ UNCHANGED <<argv, args, VERBOSE, ACCEPT, logLevel, cmd1, include_numpy,
                   dont_generate_annotations, dont_cleanup, target_filenames,
                   numpy_is_installed, target_pyx_files_fullpaths, calls,
                   finds, builds, cleans, errors, helpShown>>

\* lines 110-116 (handler at 120-122): cython_build
CythonBuild ==
    /\ pc = "build"
    /\ builds' = Append(builds, BuildCall(target_pyx_files_fullpaths,
                                          dont_generate_annotations,
                                          include_numpy))
    /\ \E outcome \in Outcomes :
         /\ calls' = Append(calls, [fn |-> "cython_build", outcome |-> outcome])
         /\ errors' = errors + Reported(outcome)
         /\ pc' = AfterBuild(outcome)
    /\ UNCHANGED <<argv, args, VERBOSE, ACCEPT, logLevel, cmd1, include_numpy,
                   dont_generate_annotations, dont_cleanup, target_filenames,
                   numpy_is_installed, target_pyx_files_fullpaths, finds,
                   cleans, prompts, helpShown>>

\* lines 117-119 and 139-142 (handlers at 120-122, 143-145): cython_clean
CythonClean ==
    /\ pc = "clean"
    /\ cleans' = Append(cleans, CleanCall(target_pyx_files_fullpaths,
                                          dont_cleanup))
    /\ \E outcome \in Outcomes :
         /\ calls' = Append(calls, [fn |-> "cython_clean", outcome |-> outcome])
         /\ errors' = errors + Reported(outcome)
    /\ pc' = "done"
    /\ UNCHANGED <<argv, args, VERBOSE, ACCEPT, logLevel, cmd1, include_numpy,
                   dont_generate_annotations, dont_cleanup, target_filenames,
                   numpy_is_installed, target_pyx_files_fullpaths, finds,
                   builds, prompts, helpShown>>

\* lines 146-147: help
CmdHelp ==
    /\ pc = "dispatch"
    /\ Dispatch(cmd1) = "help"
    /\ helpShown' = helpShown + 1
    /\ pc' = "done"
    /\ UNCHANGED <<argv, args, VERBOSE, ACCEPT, logLevel, cmd1, include_numpy,
                   dont_generate_annotations, dont_cleanup, target_filenames,
                   numpy_is_installed, target_pyx_files_fullpaths, calls,
                   finds, builds, cleans, prompts, errors>>

\* lines 148-150: any other command
CmdUnknown ==
    /\ pc = "dispatch"
    /\ Dispatch(cmd1) = "unknown"
    /\ helpShown' = helpShown + 1
    /\ pc' = "done"
    /\ UNCHANGED <<argv, args, VERBOSE, ACCEPT, logLevel, cmd1, include_numpy,
                   dont_generate_annotations, dont_cleanup, target_filenames,
                   numpy_is_installed, target_pyx_files_fullpaths, calls,
                   finds, builds, cleans, prompts, errors>>

Next ==
    \/ ParsePreferences
    \/ ReadCommand
    \/ CmdInit
    \/ CmdList
    \/ CmdBuildArgs
    \/ NumpyInstallCheck
    \/ NumpyIncludeCheck
    \/ CmdCleanArgs
    \/ Discover
    \/ Confirm
    \/ CythonBuild
    \/ CythonClean
    \/ CmdHelp
    \/ CmdUnknown

Spec == Init /\ [][Next]_vars

----------------------------------------------------------------------------
\* Vocabulary of the properties

\* The global preference flags main recognises (lines 42-43).
GlobalFlags == {"-v", "--verbose", "-y", "--yes"}

\* The options each command documents and strips (lines 85, 126).
CommandOptions(cmd) ==
    IF cmd = "build" THEN {"--include-numpy", "--no-annotations", "--no-cleanup"}
    ELSE IF cmd = "clean" THEN {"--no-cleanup"}
    ELSE {}

\* What the user typed after the command word.
AfterCommand ==
    IF cmd1 \notin Range(argv) THEN <<>>
    ELSE LET k == CHOOSE i \in DOMAIN argv :
                    argv[i] = cmd1 /\ \A j \in 1..(i - 1) : argv[j] # cmd1
         IN  SubSeq(argv, k + 1, Len(argv))

\* The filenames among them: everything that is neither a global flag, nor
\* one of the flags the removal loop names, nor an option of the command.
UserFilenames ==
    SelectSeq(AfterCommand,
              LAMBDA x : x \notin GlobalFlags \cup Range(PreferenceFlags)
                                     \cup CommandOptions(cmd1))

YesGiven == "-y" \in Range(argv) \/ "--yes" \in Range(argv)

Find(outcome) == [fn |-> "cython_find_pyx_files", outcome |-> outcome]
Built(outcome) == [fn |-> "cython_build", outcome |-> outcome]

NumpyPrompts ==
    {j \in DOMAIN prompts : prompts[j].kind \in {"install_numpy", "include_numpy"}}

TypeOK ==
    /\ pc \in {"start", "command", "dispatch", "numpy", "numpy_include",
               "discover", "confirm", "build", "clean", "done"}
    /\ Len(calls) <= 3
    /\ Len(calls) = Len(finds) + Len(builds) + Len(cleans)
                    + (IF cmd1 = "init" THEN Len(calls) ELSE 0)
    /\ errors \in 0..1
    /\ helpShown \in 0..1

----------------------------------------------------------------------------
\* C1: in the build command the stages run in the order discovery, build,
\* clean: cython_build is called only after discovery has returned,
\* cython_clean only after cython_build has returned without raising, and
\* each of the three is called at most once.
C1_StageOrder ==
    cmd1 = "build" =>
        \A i \in DOMAIN calls :
            /\ calls[i].fn = "cython_find_pyx_files" => i = 1
            /\ calls[i].fn = "cython_build" =>
                   (i = 2 /\ calls[1] = Find("returned"))
            /\ calls[i].fn = "cython_clean" =>
                   (i = 3 /\ calls[2] = Built("returned"))

C1_Witness ==
    /\ cmd1 = "build"
    /\ Len(calls) = 3
    /\ calls[3].fn = "cython_clean"

\* C2: in build and clean, a stage that raises is reported through
\* logger.error, the program terminates, and no stage is called after it
\* (so the failed stage is not called again either).
C2_FailureIsTerminal ==
    cmd1 \in {"build", "clean"} =>
        /\ \A i \in DOMAIN calls :
               calls[i].outcome = "raised" =>
                   (i = Len(calls) /\ pc = "done" /\ errors = 1)
        /\ errors = 1 => (calls # <<>> /\ calls[Len(calls)].outcome = "raised")

C2_Witness ==
    /\ cmd1 = "build"
    /\ Len(calls) = 2
    /\ calls[2] = Built("raised")
    /\ pc = "done"

\* C3: the documented option --no-annotation disables annotation generation:
\* cython_build gets create_annotations=False exactly when the option was
\* passed, and the option is never part of the name filter.
C3_NoAnnotationOption ==
    /\ \A i \in DOMAIN builds :
           builds[i].create_annotations = ("--no-annotation" \notin Range(argv))
    /\ \A i \in DOMAIN finds :
           cmd1 = "build" =>
               "--no-annotation" \notin Range(finds[i].target_files.list)

\* C4: in build and clean, cython_clean gets keep_c_files=True exactly when
\* --no-cleanup is among the command's arguments, and --no-cleanup is never
\* part of the name filter.
C4_KeepCFiles ==
    cmd1 \in {"build", "clean"} =>
        /\ \A i \in DOMAIN cleans :
               cleans[i].keep_c_files = ("--no-cleanup" \in Range(AfterCommand))
        /\ \A i \in DOMAIN finds :
               "--no-cleanup" \notin Range(finds[i].target_files.list)

C4_Witness ==
    /\ cmd1 = "clean"
    /\ Len(cleans) = 1
    /\ cleans[1].keep_c_files
    /\ "--no-cleanup" \in Range(argv)

\* C5: for list, build and clean the name filter handed to discovery is
\* exactly the list of filenames the user passed after the command, in
\* order, None when there is none; the command's options are never in it.
C5_FilterIsUserFilenames ==
    cmd1 \in {"list", "build", "clean"} =>
        \A i \in DOMAIN finds :
            /\ finds[i].target_files = TargetFilenames(UserFilenames)
            /\ Range(finds[i].target_files.list) \cap CommandOptions(cmd1) = {}

\* C6: cython_build is called only by build, cython_clean only by build or
\* clean, init_cython only by init; list calls only discovery; help, an
\* unknown command and an empty argument list call nothing, show the help
\* and terminate.
C6_Dispatch ==
    /\ \A i \in DOMAIN calls :
           /\ calls[i].fn = "cython_build" => cmd1 = "build"
           /\ calls[i].fn = "cython_clean" => cmd1 \in {"build", "clean"}
           /\ calls[i].fn = "init_cython" => cmd1 = "init"
           /\ cmd1 = "list" => calls[i].fn = "cython_find_pyx_files"
    /\ cmd1 \notin {"init", "list", "build", "clean"} =>
           /\ calls = <<>>
           /\ pc = "done" => helpShown = 1
    /\ helpShown = 1 => (pc = "done" /\ calls = <<>>)

C6_Witness ==
    /\ cmd1 = "list"
    /\ pc = "done"
    /\ calls = <<Find("returned")>>
    /\ helpShown = 0

\* C7 as stated: cython_build gets include_numpy=True only if numpy is
\* installed and the user passed --include-numpy or answered exactly 'y' to
\* the inclusion prompt; with --include-numpy and no numpy the command
\* terminates before discovery (answer 'y') or goes on with
\* include_numpy=False; at most one numpy prompt is shown.
C7_Original ==
    /\ \A i \in DOMAIN builds :
           builds[i].include_numpy =>
               /\ numpy_is_installed
               /\ \/ "--include-numpy" \in Range(argv)
                  \/ \E j \in DOMAIN prompts :
                         prompts[j] = [kind |-> "include_numpy", answer |-> "y"]
    /\ ( /\ cmd1 = "build"
         /\ "--include-numpy" \in Range(argv)
         /\ pc \in {"numpy_include", "discover", "confirm", "build", "clean",
                    "done"}
         /\ ~numpy_is_installed ) =>
           \/ /\ pc = "done"
              /\ calls = <<>>
              /\ prompts = <<[kind |-> "install_numpy", answer |-> "y"]>>
           \/ /\ include_numpy = FALSE
              /\ \A i \in DOMAIN builds : ~builds[i].include_numpy
    /\ Cardinality(NumpyPrompts) <= 1

\* C7 (amended): as above, with the answers that count being 'y' and 'Y':
\* the answer is lower-cased before it is compared with 'y'.
C7_NumpyInclusion ==
    /\ \A i \in DOMAIN builds :
           builds[i].include_numpy =>
               /\ numpy_is_installed
               /\ \/ "--include-numpy" \in Range(argv)
                  \/ \E j \in DOMAIN prompts :
                         /\ prompts[j].kind = "include_numpy"
                         /\ prompts[j].answer \in {"y", "Y"}
    /\ ( /\ cmd1 = "build"
         /\ "--include-numpy" \in Range(argv)
         /\ pc \in {"numpy_include", "discover", "confirm", "build", "clean",
                    "done"}
         /\ ~numpy_is_installed ) =>
           \/ /\ pc = "done"
              /\ calls = <<>>
              /\ Len(prompts) = 1
              /\ prompts[1].kind = "install_numpy"
              /\ prompts[1].answer \in {"y", "Y"}
           \/ /\ include_numpy = FALSE
              /\ \A i \in DOMAIN builds : ~builds[i].include_numpy
    /\ Cardinality(NumpyPrompts) <= 1

C7_Witness ==
    /\ Len(builds) = 1
    /\ builds[1].include_numpy
    /\ "--include-numpy" \notin Range(argv)
    /\ prompts[1] = [kind |-> "include_numpy", answer |-> "Y"]

\* C8: in build and clean without -y/--yes, cython_build and cython_clean
\* are called only after the user answered 'y' or 'Y' to the confirmation
\* prompt, and any other answer terminates the program with neither called;
\* with -y or --yes the confirmation prompt is never shown.
C8_ConfirmationGate ==
    cmd1 \in {"build", "clean"} =>
        /\ ~YesGiven =>
               /\ (builds # <<>> \/ cleans # <<>>) =>
                      \E j \in DOMAIN prompts :
                          /\ prompts[j].kind = "confirm"
                          /\ prompts[j].answer \in {"y", "Y"}
               /\ \A j \in DOMAIN prompts :
                      (prompts[j].kind = "confirm"
                          /\ prompts[j].answer \notin {"y", "Y"}) =>
                      (pc = "done" /\ builds = <<>> /\ cleans = <<>>)
        /\ YesGiven =>
               \A j \in DOMAIN prompts : prompts[j].kind # "confirm"

C8_Witness ==
    /\ cmd1 = "clean"
    /\ ~YesGiven
    /\ Len(cleans) = 1
    /\ \E j \in DOMAIN prompts :
           prompts[j] = [kind |-> "confirm", answer |-> "Y"]

\* C9: every global preference flag main recognises (-v, --verbose, -y,
\* --yes) is removed before the command is read: none is ever taken as the
\* command and none ever appears in the name filter.
C9_GlobalFlagsRemoved ==
    /\ cmd1 \notin GlobalFlags
    /\ \A i \in DOMAIN finds :
           Range(finds[i].target_files.list) \cap GlobalFlags = {}

\* C10: in the build command the file list is discovered once and handed on
\* unchanged: cython_build gets exactly the list the single discovery call
\* returned, and cython_clean gets the list cython_build got.
C10_SameFileList ==
    cmd1 = "build" =>
        /\ Len(finds) <= 1
        /\ \A i \in DOMAIN builds :
               /\ Len(finds) = 1
               /\ calls[1] = Find("returned")
               /\ builds[i].target_files = finds[1].result
        /\ \A i \in DOMAIN cleans :
               /\ Len(builds) = 1
               /\ cleans[i].target_files = builds[1].target_files

C10_Witness ==
    /\ cmd1 = "build"
    /\ Len(cleans) = 1
    /\ Len(builds) = 1
    /\ Len(builds[1].target_files) = 2

====
